---- MODULE Spec2Model ----
(***************************************************************************)
(* A model of python_telnet_vlc.vlctelnet.VLCTelnet: the session engine    *)
(* (construction, connect, login, disconnect, liveness probe) and the      *)
(* retrying command dispatcher (run_command / do_run_command /             *)
(* do_send_string) with its callers info() and set_volume(), over          *)
(* telnetlib.Telnet as the transport.                                      *)
(*                                                                         *)
(* Text is a sequence of one-character strings, so that lower-casing,      *)
(* substring search, splitting and the two regular expressions are         *)
(* computed character by character as Python computes them.  Bytes on the  *)
(* wire are ASCII, for which decode('utf-8') maps each byte to the same    *)
(* character, or command bytes of the telnet protocol, which telnetlib     *)
(* takes out of the stream and which decode('utf-8') rejects.              *)
(*                                                                         *)
(* The remote end is the environment: for every transport call it chooses  *)
(* whether a write is accepted, what bytes arrive (a chunk from a finite   *)
(* set) and what follows those bytes (more silence, end of stream, or a    *)
(* socket error).  Bytes that arrive while a read finds its match in what  *)
(* is already queued stay on the socket for the next read.  A read that    *)
(* would wait forever is not taken: every transport call returns or        *)
(* raises.                                                                 *)
(***************************************************************************)
EXTENDS Integers, Sequences, FiniteSets

VARIABLES
  pc,           \* "init" (fields set, lines 50-54), "idle", "run", "failed"
  retries,      \* self.retries
  tn,           \* self.tn, a telnetlib.Telnet: [sock, eof, cookedq, iacseq,
                \* sb, sbdataq], with the socket under it: [wire, shut,
                \* answered]
  authed,       \* a login() has succeeded on the socket now in tn.sock
  closedSocks,  \* sockets that have been closed
  nextSock,     \* identity of the next socket the system hands out
  budget,       \* the retries argument of the pending do_run_command call
  trace,        \* transport events of the current (or last) operation
  result        \* outcome of the last completed operation, or the call
                \* of info() or set_volume() that is inside run_command

vars == <<pc, retries, tn, authed, closedSocks, nextSock, budget, trace, result>>

(***************************************************************************)
(* Bounds of the model.                                                    *)
(***************************************************************************)
MaxRetries == 2
MaxSocks == 3
\* the most bytes that have arrived and that no read has returned yet
MaxBacklog == 7
\* the most bytes that telnetlib has sent by itself on one socket
MaxAnswered == 3
\* the longest reply to the info command, in lines
MaxInfoLines == 3

(***************************************************************************)
(* Text constants of the protocol.                                         *)
(***************************************************************************)
PROMPT == <<">", " ">>
CRLF == <<"\r", "\n">>
LF == <<"\n">>
PASSWORD_PROMPT == <<"P", "a", "s", "s", "w", "o", "r", "d", ":", " ">>
WRONG_PASSWORD ==
  <<"w", "r", "o", "n", "g", " ", "p", "a", "s", "s", "w", "o", "r", "d">>
WELCOME == <<"w", "e", "l", "c", "o", "m", "e">>
\* The grave accent (ASCII 96), which a TLA+ string cannot hold: the one
\* character of the model that is written as a name.
BQ == "GRAVE"
\* "Unknown command " followed by a grave accent
UNKNOWN_HEAD ==
  <<"U", "n", "k", "n", "o", "w", "n", " ",
    "c", "o", "m", "m", "a", "n", "d", " ", BQ>>
\* "'. Type " + grave accent + "help' for help."
UNKNOWN_TAIL ==
  <<"'", ".", " ", "T", "y", "p", "e", " ", BQ, "h", "e", "l", "p", "'", " ",
    "f", "o", "r", " ", "h", "e", "l", "p", ".">>
ERROR_IN == <<"E", "r", "r", "o", "r", " ", "i", "n">>

(***************************************************************************)
(* Python str operations.                                                  *)
(***************************************************************************)
UpperChars ==
  <<"A", "B", "C", "D", "E", "F", "G", "H", "I", "J", "K", "L", "M",
    "N", "O", "P", "Q", "R", "S", "T", "U", "V", "W", "X", "Y", "Z">>
LowerChars ==
  <<"a", "b", "c", "d", "e", "f", "g", "h", "i", "j", "k", "l", "m",
    "n", "o", "p", "q", "r", "s", "t", "u", "v", "w", "x", "y", "z">>

LowerChar(c) ==
  IF \E i \in 1..26 : UpperChars[i] = c
  THEN LowerChars[CHOOSE i \in 1..26 : UpperChars[i] = c]
  ELSE c

\* str.lower()
Lower(s) == [i \in 1..Len(s) |-> LowerChar(s[i])]

\* 1 + s.find(m): the first position of m in s, 0 when m does not occur
Find(s, m) ==
  LET at == {i \in 1..(Len(s) - Len(m) + 1) : SubSeq(s, i, i + Len(m) - 1) = m}
  IN IF at = {} THEN 0 ELSE CHOOSE i \in at : \A j \in at : i <= j

\* m in s
Contains(s, m) == Find(s, m) > 0

\* s.startswith(m)
StartsWith(s, m) == Len(s) >= Len(m) /\ SubSeq(s, 1, Len(m)) = m

\* s.strip(chars), chars a set of characters
Strip(s, chars) ==
  LET keep == {i \in 1..Len(s) : s[i] \notin chars}
  IN IF keep = {} THEN <<>>
     ELSE SubSeq(s, CHOOSE i \in keep : \A j \in keep : i <= j,
                    CHOOSE i \in keep : \A j \in keep : j <= i)

\* s.split(sep)
RECURSIVE Split(_, _)
Split(s, sep) ==
  LET i == Find(s, sep)
  IN IF i = 0 THEN <<s>>
     ELSE <<SubSeq(s, 1, i - 1)>> \o Split(SubSeq(s, i + Len(sep), Len(s)), sep)

\* l[:-1]
ButLast(l) == SubSeq(l, 1, Len(l) - 1)

\* the longest prefix of s that holds no line feed: what ".*" can match
DotStar(s) ==
  LET i == Find(s, LF) IN IF i = 0 THEN s ELSE SubSeq(s, 1, i - 1)

\* re.match of the unknown-command pattern (UNKNOWN_HEAD, ".*", UNKNOWN_TAIL)
\* against line is not None
MatchUnknown(line) ==
  /\ StartsWith(line, UNKNOWN_HEAD)
  /\ Contains(DotStar(SubSeq(line, Len(UNKNOWN_HEAD) + 1, Len(line))),
              UNKNOWN_TAIL)

\* re.match(r"Error in.*", line): <<>> for None, else << match.group() >>
MatchErrorIn(line) ==
  IF StartsWith(line, ERROR_IN) THEN <<DotStar(line)>> ELSE <<>>

\* F(x), with x evaluated once
At(F(_), x) == CHOOSE r \in {F(v) : v \in {x}} : TRUE

(***************************************************************************)
(* Python numbers from text: int(s) and float(s), for ASCII text.          *)
(***************************************************************************)
Digits == <<"0", "1", "2", "3", "4", "5", "6", "7", "8", "9">>
IsDigit(c) == \E i \in 1..10 : Digits[i] = c
DigitVal(c) == (CHOOSE i \in 1..10 : Digits[i] = c) - 1

\* The control characters U+000B and U+001C to U+001F, which a TLA+ string
\* cannot hold, under the names ASCII gives them
VT == "VT"
FS == "FS"
GS == "GS"
RS == "RS"
US == "US"

\* the ASCII characters str.strip() removes
Whitespace == {" ", "\t", "\n", "\r", "\f", VT, FS, GS, RS, US}

\* the ASCII characters int() and float() skip around the number
NumberSpace == {" ", "\t", "\n", "\r", "\f", VT}

\* A digit string in which single underscores may separate digits
IsDigitString(s) ==
  /\ s # <<>>
  /\ \A i \in DOMAIN s :
       \/ IsDigit(s[i])
       \/ /\ s[i] = "_"
          /\ i > 1 /\ i < Len(s)
          /\ IsDigit(s[i - 1]) /\ IsDigit(s[i + 1])

IsDigitChar(c) == c # "_"

\* The number that a string of digits denotes
RECURSIVE DigitsVal(_)
DigitsVal(d) ==
  IF d = <<>> THEN 0
  ELSE 10 * DigitsVal(SubSeq(d, 1, Len(d) - 1)) + DigitVal(d[Len(d)])

\* The number a digit string denotes, its underscores left out
DecVal(s) == DigitsVal(SelectSeq(s, IsDigitChar))

\* An optional sign, then the rest
SignOf(b) == IF b # <<>> /\ b[1] = "-" THEN -1 ELSE 1
Unsigned(b) == IF b # <<>> /\ b[1] \in {"+", "-"} THEN Tail(b) ELSE b

\* int() of the stripped text b
IntBody(b) ==
  IF IsDigitString(Unsigned(b)) THEN <<SignOf(b) * DecVal(Unsigned(b))>>
  ELSE <<>>

\* int(s) for a str s: <<>> when it raises ValueError, else << the number >>
PyInt(s) == IntBody(Strip(s, NumberSpace))

\* str(n) for an integer n
RECURSIVE NatStr(_)
NatStr(n) ==
  IF n < 10 THEN <<Digits[n + 1]>>
  ELSE NatStr(n \div 10) \o <<Digits[(n % 10) + 1]>>
IntStr(n) == IF n < 0 THEN <<"-">> \o NatStr(-n) ELSE NatStr(n)

\* A decimal mantissa m and exponent e with the same value and m not a
\* multiple of ten (0 is m = 0, e = 0)
RECURSIVE Normal(_, _)
Normal(m, e) ==
  IF m = 0 THEN [m |-> 0, e |-> 0]
  ELSE IF m % 10 = 0 THEN Normal(m \div 10, e + 1)
  ELSE [m |-> m, e |-> e]

\* 10^n
RECURSIVE Pow10(_)
Pow10(n) == IF n = 0 THEN 1 ELSE 10 * Pow10(n - 1)

\* The parts of a float literal u (lower case, unsigned): the text before
\* the exponent mark, the text after it, and whether there is a mark
HasExponent(u) == Find(u, <<"e">>) > 0
Mantissa(u) ==
  IF HasExponent(u) THEN SubSeq(u, 1, Find(u, <<"e">>) - 1) ELSE u
Exponent(u) ==
  IF HasExponent(u) THEN SubSeq(u, Find(u, <<"e">>) + 1, Len(u)) ELSE <<>>
\* the digits of a mantissa before and after its point
Whole(mant) ==
  IF Find(mant, <<".">>) = 0 THEN mant
  ELSE SubSeq(mant, 1, Find(mant, <<".">>) - 1)
Fraction(mant) ==
  IF Find(mant, <<".">>) = 0 THEN <<>>
  ELSE SubSeq(mant, Find(mant, <<".">>) + 1, Len(mant))

\* The number of decimal digits of m > 0
RECURSIVE NumDigits(_)
NumDigits(m) == IF m < 10 THEN 1 ELSE 1 + NumDigits(m \div 10)

\* The exponent of m * 10^e in scientific notation, and its first nine
\* significant digits (m has at most nine)
SciExponent(m, e) == e + NumDigits(m) - 1
Lead9(m) == m * Pow10(9 - NumDigits(m))

\* The range of a double.  The literals of at most nine digits next to
\* each limit: 2^1024 - 2^970 = 1.797693134862315807...e308 and above
\* round to infinity, 2^-1075 = 2.470328229206232720...e-324 and below
\* round to zero, and below 2^-1022 = 2.225073858507201383...e-308 a
\* double is subnormal.
OVERFLOW_EXP == 308
OVERFLOW_LEAD == 179769314
UNDERFLOW_EXP == -324
UNDERFLOW_LEAD == 247032822
SUBNORMAL_EXP == -308
SUBNORMAL_LEAD == 222507385
\* a subnormal double is a multiple of 2^-1074
SUBNORMAL_BITS == 1074

Overflows(m, e) ==
  \/ SciExponent(m, e) > OVERFLOW_EXP
  \/ SciExponent(m, e) = OVERFLOW_EXP /\ Lead9(m) >= OVERFLOW_LEAD
Underflows(m, e) ==
  \/ SciExponent(m, e) < UNDERFLOW_EXP
  \/ SciExponent(m, e) = UNDERFLOW_EXP /\ Lead9(m) <= UNDERFLOW_LEAD
Subnormal(m, e) ==
  \/ SciExponent(m, e) < SUBNORMAL_EXP
  \/ SciExponent(m, e) = SUBNORMAL_EXP /\ Lead9(m) <= SUBNORMAL_LEAD

\* Natural numbers too long for a machine integer, as the sequence of their
\* decimal digits.  NatDigits(n) is the digits of n; Carried(cols) is the
\* number whose digit columns hold the values cols, carries propagated.
RECURSIVE NatDigits(_)
NatDigits(n) ==
  IF n < 10 THEN <<n>> ELSE Append(NatDigits(n \div 10), n % 10)
\* columns lo..hi with the carry that comes in: the digits d and the carry
\* c that goes out (the columns are halved, the right half first)
RECURSIVE CarriedRange(_, _, _, _)
CarriedJoin(left, right) == [d |-> left.d \o right.d, c |-> left.c]
CarriedLeft(cols, lo, mid, right) ==
  At(LAMBDA left : CarriedJoin(left, right),
     CarriedRange(cols, lo, mid, right.c))
CarriedRange(cols, lo, hi, carry) ==
  IF lo > hi THEN [d |-> <<>>, c |-> carry]
  ELSE IF lo = hi
  THEN [d |-> <<(cols[lo] + carry) % 10>>, c |-> (cols[lo] + carry) \div 10]
  ELSE At(LAMBDA right : CarriedLeft(cols, lo, (lo + hi) \div 2, right),
          CarriedRange(cols, (lo + hi) \div 2 + 1, hi, carry))
CarriedOut(r) == IF r.c = 0 THEN r.d ELSE NatDigits(r.c) \o r.d
CarriedAll(cols) == At(CarriedOut, CarriedRange(cols, 1, Len(cols), 0))
Carried(cols) == At(CarriedAll, cols)
\* F(lo) + ... + F(hi)
RECURSIVE SumRange(_, _, _)
SumRange(F(_), lo, hi) ==
  IF lo > hi THEN 0
  ELSE IF lo = hi THEN F(lo)
  ELSE SumRange(F, lo, (lo + hi) \div 2)
       + SumRange(F, (lo + hi) \div 2 + 1, hi)
Larger(x, y) == IF x > y THEN x ELSE y
Smaller(x, y) == IF x < y THEN x ELSE y
\* a * b
Times(a, b) ==
  Carried([c \in 1..(Len(a) + Len(b) - 1) |->
             SumRange(LAMBDA i : a[i] * b[c + 1 - i],
                      Larger(1, c + 1 - Len(b)), Smaller(Len(a), c))])
\* a + a, a * a and a + 1
Twice(a) == Carried([i \in 1..Len(a) |-> 2 * a[i]])
Square(a) == Times(a, a)
Succ(a) == Carried([i \in 1..Len(a) |-> IF i = Len(a) THEN a[i] + 1 ELSE a[i]])
\* 2^n
RECURSIVE Pow2(_)
Pow2(n) ==
  IF n = 0 THEN <<1>>
  ELSE IF n % 2 = 0 THEN At(Square, Pow2(n \div 2))
  ELSE At(Twice, Pow2(n - 1))
\* a / 10^k rounded to the nearest integer (half up)
Shifted(a, k) ==
  IF Len(a) < k THEN <<0>>
  ELSE IF Len(a) = k THEN IF a[1] >= 5 THEN <<1>> ELSE <<0>>
  ELSE IF a[Len(a) - k + 1] >= 5 THEN Succ(SubSeq(a, 1, Len(a) - k))
  ELSE SubSeq(a, 1, Len(a) - k)

\* 2^1074
SUBNORMAL_SCALE == Pow2(SUBNORMAL_BITS)
\* The subnormal double nearest to m * 10^e, in units of 2^-1074: the
\* product m * 2^1074 is a multiple of 2^1074 and e is above -1074, so
\* that no literal lies half way between two doubles
SubnormalProduct(d) == Times(d, SUBNORMAL_SCALE)
SubnormalUnits(m, e) ==
  At(LAMBDA p : Shifted(p, -e), At(SubnormalProduct, NatDigits(m)))

\* The double nearest to sign * m * 10^e, for m > 0 that is not a multiple
\* of ten: infinity, zero, u units of 2^-1074 (k = "sub", u the digits of
\* a number that may exceed a machine integer), or else the literal's own
\* value, which for at most nine digits names one double
FloatRanged(sign, m, e) ==
  IF m = 0 THEN [k |-> "num", m |-> 0, e |-> 0, u |-> <<>>]
  ELSE IF Overflows(m, e) THEN [k |-> "inf", m |-> sign, e |-> 0, u |-> <<>>]
  ELSE IF Underflows(m, e) THEN [k |-> "num", m |-> 0, e |-> 0, u |-> <<>>]
  ELSE IF Subnormal(m, e)
  THEN [k |-> "sub", m |-> sign, e |-> 0, u |-> SubnormalUnits(m, e)]
  ELSE [k |-> "num", m |-> sign * m, e |-> e, u |-> <<>>]

FloatNum(sign, n) == FloatRanged(sign, n.m, n.e)

\* The value of sign, whole part ip, fraction fp and exponent expo, where
\* these make a float literal.  The digits of ip and fp together are a
\* number that a machine integer holds (at most nine significant digits).
FloatValue(sign, ip, fp, hasExp, expo, fdigits) ==
  IF /\ (ip = <<>> \/ IsDigitString(ip))
     /\ (fp = <<>> \/ IsDigitString(fp))
     /\ (ip # <<>> \/ fp # <<>>)
     /\ (hasExp => IsDigitString(Unsigned(expo)))
  THEN <<FloatNum(sign,
                  Normal(DecVal(ip \o fp),
                         SignOf(expo) * DecVal(Unsigned(expo)) - fdigits))>>
  ELSE <<>>

\* float() of the stripped text b, u being b in lower case without its sign
FloatOf(b, u) ==
  IF u \in {<<"i", "n", "f">>, <<"i", "n", "f", "i", "n", "i", "t", "y">>}
  THEN <<[k |-> "inf", m |-> SignOf(b), e |-> 0, u |-> <<>>]>>
  ELSE IF u = <<"n", "a", "n">>
  THEN <<[k |-> "nan", m |-> 0, e |-> 0, u |-> <<>>]>>
  ELSE FloatValue(SignOf(b), Whole(Mantissa(u)), Fraction(Mantissa(u)),
                  HasExponent(u), Exponent(u),
                  Len(SelectSeq(Fraction(Mantissa(u)), IsDigitChar)))

\* float(s) for a str s: <<>> when it raises ValueError, else << the value >>,
\* a value being inf, nan, m * 10^e or u * 2^-1074
PyFloat(s) ==
  FloatOf(Strip(s, NumberSpace), Lower(Unsigned(Strip(s, NumberSpace))))

(***************************************************************************)
(* telnetlib.Telnet, as far as the client uses it.                         *)
(***************************************************************************)
NoSock == 0

\* Bytes of the telnet protocol.  A byte that a TLA+ string cannot hold is
\* written as its name: NUL is 0x00, DC1 0x11, and the commands are SE 0xf0,
\* SB 0xfa, WILL 0xfb, WONT 0xfc, DO 0xfd, DONT 0xfe, IAC 0xff.
NUL == "NUL"
DC1 == "DC1"
SE == "SE"
SB == "SB"
WILL == "WILL"
WONT == "WONT"
DO == "DO"
DONT == "DONT"
IAC == "IAC"

\* bytes.decode('utf-8') raises UnicodeDecodeError on each of the command
\* bytes: none is ASCII, and none starts a sequence that the bytes after it
\* could complete
Undecodable == {SE, SB, WILL, WONT, DO, DONT, IAC}
Decodes(buf) == \A i \in DOMAIN buf : buf[i] \notin Undecodable

\* telnetlib.Telnet(): no socket, not at end of stream, nothing buffered,
\* outside any IAC sequence and any subnegotiation.
\* wire holds the bytes that have arrived on the socket and are not yet
\* received, shut says that the peer has closed behind them, and answered
\* holds the bytes that telnetlib itself has sent on the socket.
TelnetNew ==
  [sock |-> NoSock, eof |-> FALSE, cookedq |-> <<>>, iacseq |-> <<>>,
   sb |-> 0, sbdataq |-> <<>>, wire |-> <<>>, shut |-> FALSE,
   answered |-> <<>>]

\* Telnet.open: clears eof, then installs the new socket; when the
\* connection cannot be made the socket field keeps its old value
TnOpen(t, ok, id) ==
  IF ok THEN [t EXCEPT !.eof = FALSE, !.sock = id, !.wire = <<>>,
                       !.shut = FALSE, !.answered = <<>>]
  ELSE [t EXCEPT !.eof = FALSE]

\* Telnet.close
TnClose(t) ==
  [t EXCEPT !.sock = NoSock, !.eof = TRUE, !.iacseq = <<>>, !.sb = 0,
             !.wire = <<>>, !.shut = FALSE, !.answered = <<>>]

\* Telnet.write: "ok", or the exception raised.  w is the environment's
\* answer for a write on an existing socket.
TnWrite(t, w) == IF t.sock = NoSock THEN "AttributeError" ELSE w

\* The prefix of q through the first occurrence of match
Through(q, match) == SubSeq(q, 1, Find(q, match) + Len(match) - 1)
After(q, match) == SubSeq(q, Find(q, match) + Len(match), Len(q))

\* Telnet.read_very_lazy, with q the cooked queue
ReadVeryLazy(t, q) ==
  IF q = <<>> /\ t.eof
  THEN [exc |-> "EOFError", buf |-> <<>>, tn |-> [t EXCEPT !.cookedq = <<>>]]
  ELSE [exc |-> "", buf |-> q, tn |-> [t EXCEPT !.cookedq = <<>>]]

\* Telnet.fill_rawq: sock.recv(50)
RecvSize == 50

\* chunk arrives on the socket of t, and the peer closes after it when mode
\* is "eof"; nothing arrives after the peer has closed
Arrive(t, chunk, mode) ==
  IF t.sock = NoSock \/ t.shut THEN t
  ELSE [t EXCEPT !.wire = @ \o chunk, !.shut = (mode = "eof")]

\* Telnet.process_rawq, the body of its loop for the byte c.  p is the
\* Telnet object with the subnegotiation bytes of this call (buf[1]) in
\* cooked1; the data bytes of this call (buf[0]) are appended to cookedq at
\* once, which nothing reads before the call ends.  The socket takes every
\* answer that telnetlib sends.
CookData(p, c) ==
  IF p.sb = 0 THEN [p EXCEPT !.cookedq = Append(@, c)]
  ELSE [p EXCEPT !.cooked1 = Append(@, c)]
CookCommand(p, c) ==
  IF c = IAC THEN CookData([p EXCEPT !.iacseq = <<>>], c)
  ELSE IF c = SB THEN [p EXCEPT !.iacseq = <<>>, !.sb = 1, !.sbdataq = <<>>]
  ELSE IF c = SE
  THEN [p EXCEPT !.iacseq = <<>>, !.sb = 0, !.sbdataq = @ \o p.cooked1,
                 !.cooked1 = <<>>]
  ELSE [p EXCEPT !.iacseq = <<>>]
CookOption(p, cmd, opt) ==
  IF cmd \in {DO, DONT}
  THEN [p EXCEPT !.iacseq = <<>>, !.answered = @ \o <<IAC, WONT, opt>>]
  ELSE [p EXCEPT !.iacseq = <<>>, !.answered = @ \o <<IAC, DONT, opt>>]
CookByte(p, c) ==
  IF p.iacseq = <<>>
  THEN IF c \in {NUL, DC1} THEN p
       ELSE IF c # IAC THEN CookData(p, c)
       ELSE [p EXCEPT !.iacseq = <<IAC>>]
  ELSE IF Len(p.iacseq) = 1
  THEN IF c \in {DO, DONT, WILL, WONT} THEN [p EXCEPT !.iacseq = Append(@, c)]
       ELSE CookCommand(p, c)
  ELSE CookOption(p, p.iacseq[2], c)

\* the loop of process_rawq over the bytes lo..hi of the raw queue
RECURSIVE CookRange(_, _, _, _)
CookRange(p, rawq, lo, hi) ==
  IF lo > hi THEN p
  ELSE IF lo = hi THEN CookByte(p, rawq[lo])
  ELSE At(LAMBDA q : CookRange(q, rawq, (lo + hi) \div 2 + 1, hi),
          CookRange(p, rawq, lo, (lo + hi) \div 2))

\* Telnet.process_rawq with rawq in the raw queue.  Outside an IAC sequence
\* and a subnegotiation, bytes that are all data go to the cooked queue one
\* after the other, which is the queue extended by them.
IsData(c) == c \notin {NUL, DC1, IAC}
AllData(t, rawq) ==
  t.iacseq = <<>> /\ t.sb = 0 /\ \A i \in DOMAIN rawq : IsData(rawq[i])
CookStart(t) ==
  [sock |-> t.sock, eof |-> t.eof, cookedq |-> t.cookedq,
   iacseq |-> t.iacseq, sb |-> t.sb, sbdataq |-> t.sbdataq,
   wire |-> t.wire, shut |-> t.shut, answered |-> t.answered,
   cooked1 |-> <<>>]
CookEnd(p) ==
  [sock |-> p.sock, eof |-> p.eof, cookedq |-> p.cookedq,
   iacseq |-> p.iacseq, sb |-> p.sb, sbdataq |-> p.sbdataq \o p.cooked1,
   wire |-> p.wire, shut |-> p.shut, answered |-> p.answered]
ProcessRawq(t, rawq) ==
  IF AllData(t, rawq) THEN [t EXCEPT !.cookedq = @ \o rawq]
  ELSE At(CookEnd, CookRange(CookStart(t), rawq, 1, Len(rawq)))

\* Telnet.fill_rawq and process_rawq: one recv of at most RecvSize bytes,
\* an empty one being the end of the stream, and what process_rawq makes
\* of the bytes received
RecvLen(t) == IF Len(t.wire) < RecvSize THEN Len(t.wire) ELSE RecvSize
Recv(t) ==
  ProcessRawq([t EXCEPT !.wire = SubSeq(t.wire, RecvLen(t) + 1, Len(t.wire)),
                        !.eof = (t.wire = <<>>)],
              SubSeq(t.wire, 1, RecvLen(t)))

\* read_until: the text through the match leaves the cooked queue
TakeThrough(t, match) ==
  [exc |-> "", buf |-> Through(t.cookedq, match),
   tn |-> [t EXCEPT !.cookedq = After(t.cookedq, match)]]

\* Telnet.read_until: the loop that receives until the match is in the
\* cooked queue, the stream ends or, with a timeout, nothing more comes
RECURSIVE Receive(_, _, _)
RECURSIVE ReceiveOn(_, _, _)
Receive(t, match, timed) == At(LAMBDA v : ReceiveOn(v, match, timed), t)

\* One turn of the loop, on the Telnet object t
ReceiveOn(t, match, timed) ==
  IF Contains(t.cookedq, match) THEN TakeThrough(t, match)
  ELSE IF t.eof THEN ReadVeryLazy(t, t.cookedq)
  ELSE IF t.wire = <<>> /\ ~t.shut
  THEN IF timed THEN ReadVeryLazy(t, t.cookedq)
       ELSE [exc |-> "blocks", buf |-> <<>>, tn |-> t]
  ELSE Receive(Recv(t), match, timed)

\* Telnet.read_until on the Telnet object t.  A match that is already in
\* the cooked queue is returned without a recv: what arrives stays on the
\* socket.
ReadUntilOn(t, match, timed, chunk, mode) ==
  IF Contains(t.cookedq, match) THEN TakeThrough(Arrive(t, chunk, mode), match)
  ELSE IF t.sock = NoSock
  THEN [exc |-> "ValueError", buf |-> <<>>, tn |-> t]
  ELSE IF t.eof
  THEN ReadVeryLazy(t, t.cookedq)
  ELSE IF mode = "OSError"
  THEN [exc |-> "OSError", buf |-> <<>>, tn |-> Arrive(t, chunk, mode)]
  ELSE Receive(Arrive(t, chunk, mode), match, timed)

\* Telnet.read_until(match, timeout).  timed says a timeout was given; chunk
\* is what arrives on the socket during the call and mode what follows it:
\* "open" (nothing more arrives), "eof" (the peer closes) or "OSError" (the
\* first recv fails).
ReadUntil(t, match, timed, chunk, mode) ==
  At(LAMBDA v : ReadUntilOn(v, match, timed, chunk, mode), t)

\* The bytes that have arrived for t and that no read has returned
Backlog(t) == Len(t.cookedq) + Len(t.wire)
\* t is within the bounds of the model
Bounded(t) == Backlog(t) <= MaxBacklog /\ Len(t.answered) <= MaxAnswered

WriteAnswers == {"ok", "OSError"}

(***************************************************************************)
(* What the remote end may send in answer to each kind of request: the     *)
(* bytes, and what follows them.                                           *)
(***************************************************************************)
Reply(chunk, mode) == [chunk |-> chunk, mode |-> mode]

\* Nothing is sent
Silence == Reply(<<>>, "open")

\* The answers a write on t can get: without a socket it raises by itself
WriteOutcomes(t) == IF t.sock = NoSock THEN {"ok"} ELSE WriteAnswers

\* What can arrive for t: nothing without a socket
Sent(t, replies) == IF t.sock = NoSock THEN {Silence} ELSE replies

\* What can arrive after the write on t that was answered w: there is no
\* reply to a request that was not written
Heard(t, w, replies) == IF TnWrite(t, w) = "ok" THEN replies ELSE {Silence}

X == <<"x">>
ONE == <<"1">>

\* In answer to the bare newline of the liveness probe
ProbeReplies ==
  { Reply(PROMPT, "open"),
    Reply(PASSWORD_PROMPT, "eof"),
    Reply(<<NUL, IAC, DO>> \o ONE, "eof"),
    Reply(<<>>, "eof"),
    Reply(<<>>, "OSError") }

\* In answer to a command line
CmdReplies ==
  { Reply(PROMPT, "open"),
    Reply(ONE \o <<NUL, DC1>> \o CRLF \o PROMPT, "open"),
    Reply(UNKNOWN_HEAD \o X \o UNKNOWN_TAIL \o CRLF \o PROMPT, "open"),
    Reply(Lower(UNKNOWN_HEAD) \o X \o UNKNOWN_TAIL \o CRLF \o PROMPT, "open"),
    Reply(UNKNOWN_HEAD \o X \o <<"'">> \o CRLF \o PROMPT, "open"),
    Reply(ERROR_IN \o <<" ">> \o X \o CRLF \o PROMPT, "open"),
    Reply(ERROR_IN \o <<" ">> \o X \o LF \o X \o CRLF \o PROMPT, "open"),
    Reply(<<" ">> \o ERROR_IN \o CRLF \o PROMPT, "open"),
    Reply(ONE \o CRLF \o ERROR_IN \o CRLF \o PROMPT, "open"),
    Reply(ONE \o CRLF \o UNKNOWN_HEAD \o X \o UNKNOWN_TAIL \o CRLF \o PROMPT,
          "open"),
    Reply(<<"a">> \o PROMPT \o <<"b">> \o CRLF \o PROMPT, "open"),
    Reply(<<IAC, IAC>> \o CRLF \o PROMPT, "eof"),
    Reply(ERROR_IN \o CRLF, "eof"),
    Reply(<<>>, "eof"),
    Reply(<<>>, "OSError") }

\* Before the password is sent
PromptReplies ==
  { Reply(PASSWORD_PROMPT, "open"),
    Reply(<<>>, "eof"),
    Reply(<<>>, "OSError") }

WELCOME_CAP == <<"W">> \o SubSeq(WELCOME, 2, Len(WELCOME))
WRONG_CAP == <<"W">> \o SubSeq(WRONG_PASSWORD, 2, Len(WRONG_PASSWORD))
WRONG_UPPER ==
  <<"W", "R", "O", "N", "G", " ", "P", "A", "S", "S", "W", "O", "R", "D">>

\* In answer to the password
LoginReplies ==
  { Reply(CRLF \o WELCOME_CAP \o <<",", " ", "M">> \o CRLF \o PROMPT, "open"),
    Reply(WELCOME_CAP \o PROMPT, "open"),
    Reply(WELCOME_CAP \o CRLF, "eof"),
    Reply(WELCOME_CAP \o CRLF \o X, "eof"),
    Reply(CRLF \o WRONG_CAP \o CRLF, "open"),
    Reply(WRONG_UPPER \o CRLF, "eof"),
    Reply(WELCOME_CAP \o <<":", " ">> \o WRONG_UPPER \o CRLF \o PROMPT, "open"),
    Reply(CRLF \o CRLF \o WELCOME_CAP, "open"),
    Reply(<<"h", "i">> \o CRLF \o PROMPT, "open"),
    Reply(<<>>, "open"),
    Reply(<<>>, "OSError") }

(***************************************************************************)
(* The methods of VLCTelnet.  Each yields the new Telnet object, the       *)
(* transport events in order, and the exception raised ("" for none).      *)
(***************************************************************************)

\* connect()
Connect(t, ok, id) ==
  [tn |-> TnOpen(t, ok, id),
   ev |-> <<"connect">>,
   exc |-> IF ok THEN "" ELSE "ConnectionError"]

\* A disconnect() that closes the socket and keeps the old Telnet object
DisconnectNoReset(t) ==
  [tn |-> TnClose(t),
   closed |-> {t.sock} \ {TnClose(t).sock},
   ev |-> <<"close">>,
   exc |-> ""]

\* disconnect()
Disconnect(t) ==
  [tn |-> TelnetNew,
   closed |-> {t.sock} \ {TnClose(t).sock},
   ev |-> <<"close">>,
   exc |-> ""]

\* A login() that looks for the welcome before the rejection
LoginVerdictWelcomeFirst(command_output) ==
  LET parsed_output == Lower(command_output)
  IN IF Contains(parsed_output, WELCOME) THEN ""
     ELSE IF Contains(parsed_output, WRONG_PASSWORD) THEN "AuthError"
     ELSE "CommandError"

\* A login() that takes every answer but a rejection for a welcome
LoginVerdictNoWelcomeCheck(command_output) ==
  LET parsed_output == Lower(command_output)
  IN IF Contains(parsed_output, WRONG_PASSWORD) THEN "AuthError" ELSE ""

\* login(): what the inspection of the challenge response raises
LoginVerdict(command_output) ==
  LET parsed_output == Lower(command_output)
  IN IF Contains(parsed_output, WRONG_PASSWORD) THEN "AuthError"
     ELSE IF ~Contains(parsed_output, WELCOME) THEN "CommandError"
     ELSE ""

\* A login() that returns without the read of line 94
LoginNeedsDrainNever(command_output) == FALSE

\* login(): whether the banner is still to be read up to the prompt
LoginNeedsDrain(command_output) == ~Contains(command_output, PROMPT)

\* A login() that takes the first line it reads, empty or not
LoginReadsAgainNever(command_output) == FALSE

\* login(), line 83: the loop goes on to its second read
LoginReadsAgain(command_output) == command_output = <<>>

\* login(): how it leaves after events ev; ch holds the challenge response
\* once it is read, read the lines read for it, and drained what the read of
\* line 94 returned
LoginOut(t, ev, exc, ch, read, drained) ==
  [tn |-> t, ev |-> ev, exc |-> exc, challenge |-> ch, read |-> read,
   drained |-> drained]

\* login().  pr is the reply before the password, w the answer to the write
\* of the password, lr the reply to the password.
Login(t, pr, w, lr) ==
  LET r0 == ReadUntil(t, PASSWORD_PROMPT, FALSE, pr.chunk, pr.mode)
      wr == TnWrite(r0.tn, w)
      r1 == ReadUntil(r0.tn, LF, TRUE, lr.chunk, lr.mode)
      o1 == Strip(r1.buf, {"\r", "\n"})
      r2 == ReadUntil(r1.tn, LF, TRUE, <<>>, lr.mode)
      o2 == Strip(r2.buf, {"\r", "\n"})
      again == LoginReadsAgain(o1)
      read == IF again THEN <<o1, o2>> ELSE <<o1>>
      rl == IF again THEN r2 ELSE r1
      command_output == IF again THEN o2 ELSE o1
      e0 == <<"login", "read_prompt">>
      e1 == e0 \o <<"write_password">>
      e2 == e1 \o <<"read_line">>
      e3 == IF again THEN e2 \o <<"read_line">> ELSE e2
      r3 == ReadUntil(rl.tn, PROMPT, FALSE, <<>>, lr.mode)
  IN IF r0.exc # "" THEN LoginOut(r0.tn, e0, r0.exc, <<>>, <<>>, <<>>)
     ELSE IF wr # "ok" THEN LoginOut(r0.tn, e1, wr, <<>>, <<>>, <<>>)
     ELSE IF r1.exc # "" THEN LoginOut(r1.tn, e2, r1.exc, <<>>, <<>>, <<>>)
     ELSE IF ~Decodes(r1.buf)
     THEN LoginOut(r1.tn, e2, "UnicodeDecodeError", <<>>, <<>>, <<>>)
     ELSE IF again /\ r2.exc # ""
     THEN LoginOut(r2.tn, e3, r2.exc, <<>>, <<o1>>, <<>>)
     ELSE IF again /\ ~Decodes(r2.buf)
     THEN LoginOut(r2.tn, e3, "UnicodeDecodeError", <<>>, <<o1>>, <<>>)
     ELSE IF LoginVerdict(command_output) # ""
     THEN LoginOut(rl.tn, e3, LoginVerdict(command_output),
                   <<command_output>>, read, <<>>)
     ELSE IF ~LoginNeedsDrain(command_output)
     THEN LoginOut(rl.tn, e3, "", <<command_output>>, read, <<>>)
     ELSE LoginOut(r3.tn, e3 \o <<"read_drain">>, r3.exc, <<command_output>>,
                   read, r3.buf)

\* login(): the password prompt was read, so that the password is written
LoginAsked(t, pr) ==
  ReadUntil(t, PASSWORD_PROMPT, FALSE, pr.chunk, pr.mode).exc = ""

\* The answers the write of the password can get, and what can arrive
\* after it
LoginWrites(t, pr) == IF LoginAsked(t, pr) THEN WriteOutcomes(t) ELSE {"ok"}
LoginHeard(t, pr, w) ==
  IF LoginAsked(t, pr) THEN Heard(t, w, LoginReplies) ELSE {Silence}

\* is_connected(): the value returned for what read_until gave
ProbeAnswer(answer) == answer # <<>>

\* An is_connected() without the except clause
ProbeCatchesNothing(exc) == FALSE

\* is_connected(): the exceptions its except clause catches (socket.error)
ProbeCatches(exc) == exc = "OSError"

ProbeOut(t, ev, exc, alive, answer) ==
  [tn |-> t, ev |-> ev, exc |-> exc, alive |-> alive, answer |-> answer]

\* is_connected(): an exception e raised by the transport after events ev:
\* False when the except clause catches it, else it leaves the method.  A
\* socket error is marked in the events.
ProbeRaised(t, ev, e) ==
  LET marked == IF e = "OSError" THEN ev \o <<"OSError">> ELSE ev
  IN IF ProbeCatches(e) THEN ProbeOut(t, marked \o <<"dead">>, "", FALSE, <<>>)
     ELSE ProbeOut(t, marked, e, FALSE, <<>>)

\* An is_connected() that writes the newline and does not wait for the reply
IsConnectedNoRead(t, w, pr) ==
  IF TnWrite(t, w) # "ok" THEN ProbeRaised(t, <<"probe_write">>, TnWrite(t, w))
  ELSE ProbeOut(t, <<"probe_write", "alive">>, "", TRUE, PROMPT)

\* is_connected(), lines 99-106, rd being the outcome of read_until
ProbeRead(rd) ==
  LET e1 == <<"probe_write", "probe_read">>
  IN IF rd.exc # "" THEN ProbeRaised(rd.tn, e1, rd.exc)
     ELSE IF ProbeAnswer(rd.buf)
     THEN ProbeOut(rd.tn, e1 \o <<"alive">>, "", TRUE, rd.buf)
     ELSE ProbeOut(rd.tn, e1 \o <<"dead">>, "", FALSE, rd.buf)

\* is_connected().  w is the answer to the write of the newline, pr the
\* reply to it.
IsConnected(t, w, pr) ==
  IF TnWrite(t, w) # "ok"
  THEN ProbeRaised(t, <<"probe_write">>, TnWrite(t, w))
  ELSE At(ProbeRead, ReadUntil(t, PROMPT, FALSE, pr.chunk, pr.mode))

\* do_send_string(): the response as a list of lines
CommandOutput(raw) == ButLast(Split(raw, CRLF))

\* A do_send_string() that looks for "Error in" on every line of the output
ClassifyAnyLine(command_output) ==
  LET bad == {i \in DOMAIN command_output :
                MatchErrorIn(command_output[i]) # <<>>}
  IN IF command_output # <<>> /\ MatchUnknown(command_output[1])
     THEN [exc |-> "CommandError", text |-> <<>>]
     ELSE IF bad # {}
     THEN [exc |-> "LuaError",
           text |-> MatchErrorIn(command_output[CHOOSE i \in bad :
                                                  \A j \in bad : i <= j])[1]]
     ELSE [exc |-> "", text |-> <<>>]

\* do_send_string(): the exception the first line of the output asks for,
\* and the text it carries
Classify(command_output) ==
  IF command_output = <<>> THEN [exc |-> "", text |-> <<>>]
  ELSE LET command_error == MatchErrorIn(command_output[1])
       IN IF MatchUnknown(command_output[1])
          THEN [exc |-> "CommandError", text |-> <<>>]
          ELSE IF command_error # <<>>
          THEN [exc |-> "LuaError", text |-> command_error[1]]
          ELSE [exc |-> "", text |-> <<>>]

\* A do_send_string() that closes the transport before it raises
SendOutClosing(t, ev, exc, lines, text, raw, output) ==
  [tn |-> IF exc \in {"CommandError", "LuaError"} THEN TnClose(t) ELSE t,
   ev |-> ev, exc |-> exc, lines |-> lines, text |-> text,
   raw |-> raw, output |-> output]

\* do_send_string(): how it leaves, by return (exc = "") or by raise, after
\* reading raw and splitting it into output
SendOut(t, ev, exc, lines, text, raw, output) ==
  [tn |-> t, ev |-> ev, exc |-> exc, lines |-> lines, text |-> text,
   raw |-> raw, output |-> output]

\* do_send_string(), lines 123-130, c being what the first line asks for
SendClassified(rd, command_output, c) ==
  LET e1 == <<"cmd_write", "cmd_read">>
  IN IF c.exc # ""
     THEN SendOut(rd.tn, e1, c.exc, <<>>, c.text, rd.buf, command_output)
     ELSE SendOut(rd.tn, e1, "", command_output, <<>>, rd.buf, command_output)

\* do_send_string(), lines 123-130, on the output split into lines
SendSplit(rd, command_output) ==
  At(LAMBDA c : SendClassified(rd, command_output, c),
     Classify(command_output))

\* do_send_string(), lines 120-130, rd being the outcome of read_until
SendRead(rd) ==
  IF rd.exc # ""
  THEN SendOut(rd.tn, <<"cmd_write", "cmd_read">>, rd.exc,
               <<>>, <<>>, <<>>, <<>>)
  ELSE IF ~Decodes(rd.buf)
  THEN SendOut(rd.tn, <<"cmd_write", "cmd_read">>, "UnicodeDecodeError",
               <<>>, <<>>, rd.buf, <<>>)
  ELSE At(LAMBDA command_output : SendSplit(rd, command_output),
          CommandOutput(rd.buf))

\* do_send_string().  w is the answer to the write of the command line, cr
\* the reply to it.
DoSendString(t, w, cr) ==
  IF TnWrite(t, w) # "ok"
  THEN SendOut(t, <<"cmd_write">>, TnWrite(t, w), <<>>, <<>>, <<>>, <<>>)
  ELSE At(SendRead, ReadUntil(t, PROMPT, FALSE, cr.chunk, cr.mode))

\* A run_command() that starts one reconnect short
RunCommandBudgetShort(r) == IF r > 0 THEN r - 1 ELSE r

\* run_command(): the budget the first do_run_command call is given
RunCommandBudget(r) == r

\* A do_run_command() that reconnects once more, with the budget at zero
RetryDecisionOffByOne(alive, n) ==
  IF alive THEN "send" ELSE IF n >= 0 THEN "reconnect" ELSE "raise"

\* do_run_command(): what follows the liveness probe
RetryDecision(alive, n) ==
  IF alive THEN "send" ELSE IF n > 0 THEN "reconnect" ELSE "raise"

\* A do_run_command() that passes its budget on undiminished
NextBudgetSame(n) == n

\* do_run_command(): the budget handed to the recursive call
NextBudget(n) == n - 1

\* A do_run_command() that logs in again after it has reconnected
ReconnectAndLogin(t, ok, id) ==
  LET c == Connect(t, ok, id)
      l == Login(c.tn, Reply(PASSWORD_PROMPT, "open"), "ok",
                 Reply(WELCOME_CAP \o PROMPT, "open"))
  IN IF ok THEN [tn |-> l.tn, ev |-> c.ev \o l.ev, exc |-> l.exc,
                 authed |-> l.exc = ""]
     ELSE [tn |-> c.tn, ev |-> c.ev, exc |-> c.exc, authed |-> FALSE]

\* A do_run_command() that goes on to the recursive call when connect()
\* has raised
ReconnectSwallows(t, ok, id) ==
  [tn |-> Connect(t, ok, id).tn, ev |-> Connect(t, ok, id).ev, exc |-> "",
   authed |-> FALSE]

\* do_run_command(): the reconnect before the recursive call.  It is
\* connect() alone: nothing authenticates the new socket.
Reconnect(t, ok, id) ==
  LET c == Connect(t, ok, id)
  IN [tn |-> c.tn, ev |-> c.ev, exc |-> c.exc, authed |-> FALSE]

\* int(setto), line 374, for an argument that is a str, an int or None
IntOf(setto) ==
  IF setto.t = "int" THEN [exc |-> "", n |-> setto.n]
  ELSE IF setto.t = "none" THEN [exc |-> "TypeError", n |-> 0]
  ELSE IF PyInt(setto.s) = <<>> THEN [exc |-> "ValueError", n |-> 0]
  ELSE [exc |-> "", n |-> PyInt(setto.s)[1]]

VOLUME == <<"v", "o", "l", "u", "m", "e", " ">>

\* A set_volume that formats its argument as it is
SetVolumeCommandUncoerced(setto) ==
  [exc |-> "",
   command |-> VOLUME \o (IF setto.t = "int" THEN IntStr(setto.n)
                          ELSE IF setto.t = "none"
                          THEN <<"N", "o", "n", "e">>
                          ELSE setto.s)]

\* set_volume(), line 374: the command line, or the exception of int()
SetVolumeCommand(setto) ==
  LET i == IntOf(setto)
  IN [exc |-> i.exc,
      command |-> IF i.exc = "" THEN VOLUME \o IntStr(i.n) ELSE <<>>]

\* An __init__ that calls login() whenever its login flag is set
InitCallsLoginAlone(connect, login) == login

\* __init__: whether login() is called
InitCallsLogin(connect, login) == connect /\ login

(***************************************************************************)
(* info(): the decoder of the reply to the info command.  A dict is the    *)
(* sequence of its items in insertion order; a key or a value is a record  *)
(* that holds its Python type t and its content.                           *)
(***************************************************************************)
None == [t |-> "none", k |-> "", n |-> 0, e |-> 0, u |-> <<>>, s |-> <<>>]
PyStr(s) == [t |-> "str", k |-> "", n |-> 0, e |-> 0, u |-> <<>>, s |-> s]
PyNum(n) == [t |-> "int", k |-> "", n |-> n, e |-> 0, u |-> <<>>, s |-> <<>>]
PyReal(f) ==
  [t |-> "float", k |-> f.k, n |-> f.m, e |-> f.e, u |-> f.u, s |-> <<>>]

\* key in d
DictHas(d, key) == \E i \in DOMAIN d : d[i].key = key
\* d[key], key being in d
DictGet(d, key) == d[CHOOSE i \in DOMAIN d : d[i].key = key].val
\* d[key] = val
DictSet(d, key, val) ==
  IF DictHas(d, key)
  THEN [i \in DOMAIN d |-> IF d[i].key = key THEN [key |-> key, val |-> val]
                           ELSE d[i]]
  ELSE Append(d, [key |-> key, val |-> val])

\* s.replace(c, '') for a character c
Remove(s, c) == LET Keep(x) == x # c IN SelectSeq(s, Keep)

\* s.split(sep, 1)
SplitOnce(s, sep) ==
  LET i == Find(s, sep)
  IN IF i = 0 THEN <<s>>
     ELSE <<SubSeq(s, 1, i - 1), SubSeq(s, i + Len(sep), Len(s))>>

END_OF_STREAM_INFO ==
  <<"e", "n", "d", " ", "o", "f", " ", "s", "t", "r", "e", "a", "m", " ",
    "i", "n", "f", "o">>

\* lines 330-333: the section label as a number where int() gives one
SectionKeyOf(label, int) ==
  IF int # <<>> THEN PyNum(int[1]) ELSE PyStr(label)
SectionKey(label) == SectionKeyOf(label, PyInt(label))

\* lines 339-345: int, else float, else the stripped text
FieldValueOf(value, int, float) ==
  IF int # <<>> THEN PyNum(int[1])
  ELSE IF float # <<>> THEN PyReal(float[1])
  ELSE PyStr(Strip(value, Whitespace))
FieldValue(value) == FieldValueOf(value, PyInt(value), PyFloat(value))

InfoOut(exc, section, data) == [exc |-> exc, section |-> section, data |-> data]

\* line 334: data[section] = {} for the new section
OpenSection(key, data) == InfoOut("", key, DictSet(data, key, <<>>))

\* line 329: the words of the label, after the text up to the first "[" is
\* dropped (parts is the line split at "[")
LabelWords(parts) ==
  Split(Strip(Remove(parts[2], "]"), Whitespace), <<" ">>)

\* line 329 on, words being the label's words
InfoSectionWords(words, section, data) ==
  IF Len(words) < 2 THEN InfoOut("IndexError", section, data)
  ELSE OpenSection(SectionKey(words[2]), data)

\* line 329 on, parts being the line split at "["
InfoSectionParts(parts, section, data) ==
  IF Len(parts) < 2 THEN InfoOut("IndexError", section, data)
  ELSE InfoSectionWords(LabelWords(parts), section, data)

\* lines 328-334: a line that starts with "+"
InfoSectionLine(l, section, data) ==
  IF Contains(l, END_OF_STREAM_INFO) THEN InfoOut("", section, data)
  ELSE InfoSectionParts(Split(l, <<"[">>), section, data)

\* lines 338-346, kv being the text of the field split at its first ":"
InfoField(kv, section, data) ==
  IF Len(kv) < 2 THEN InfoOut("ValueError", section, data)
  ELSE IF ~DictHas(data, section) THEN InfoOut("KeyError", section, data)
  ELSE InfoOut("", section,
               DictSet(data, section,
                       DictSet(DictGet(data, section),
                               PyStr(Strip(kv[1], Whitespace)),
                               FieldValue(kv[2]))))

\* lines 337-346: a line that starts with "|"
InfoFieldLine(l, section, data) ==
  IF Len(l) <= 2 THEN InfoOut("", section, data)
  ELSE InfoField(SplitOnce(SubSeq(l, 3, Len(l)), <<":">>), section, data)

\* lines 326-348: the body of the loop, for one line
InfoLine(l, section, data) ==
  IF l = <<>> THEN InfoOut("IndexError", section, data)
  ELSE IF l[1] = "+" THEN InfoSectionLine(l, section, data)
  ELSE IF l[1] = "|" THEN InfoFieldLine(l, section, data)
  ELSE InfoOut("ParseError", section, data)

\* lines 325-349: the loop from line i on; at is the line that raised.
\* InfoStep takes the loop on from the outcome o of line i.
RECURSIVE InfoLoop(_, _, _, _)
InfoStep(lines, i, o) ==
  IF o.exc # "" THEN [exc |-> o.exc, at |-> i, data |-> <<>>]
  ELSE InfoLoop(lines, i + 1, o.section, o.data)

InfoLoop(lines, i, section, data) ==
  IF i > Len(lines) THEN [exc |-> "", at |-> 0, data |-> data]
  ELSE InfoStep(lines, i, InfoLine(lines[i], section, data))

\* info(), lines 323-349, on the lines that run_command('info') returned
Info(lines) == InfoLoop(lines, 1, None, <<>>)

(***************************************************************************)
(* What VLC may print for the info command.                                *)
(***************************************************************************)
STREAM_5 ==
  <<"+", "-", "-", "-", "-", "[", " ", "S", "t", "r", "e", "a", "m", " ",
    "5", " ", "]">>
META_DATA ==
  <<"+", "-", "-", "-", "-", "[", " ", "M", "e", "t", "a", " ", "d", "a",
    "t", "a", " ", "]">>
END_LINE == <<"+", "-", "-", "-", "-", "[", " ">> \o END_OF_STREAM_INFO
              \o <<" ", "]">>
RULE == <<"+", "-", "-", "-", "-">>
DESCRIPTION ==
  <<"|", " ", "D", "e", "s", "c", "r", "i", "p", "t", "i", "o", "n", ":",
    " ", "C", "l", "o", "s", "e", "d", " ", "c", "a", "p", "t", "i", "o",
    "n", "s", " ", "4">>
CHANNELS == <<"|", " ", "C", "h", "a", "n", "n", "e", "l", "s", ":", " ", "2">>
FRAME_RATE == <<"|", " ", "F", "r", "a", "m", "e", " ", "r", "a", "t", "e",
                ":", " ", "2", "9", ".", "9", "7">>
BAR == <<"|">>
NO_COLON == <<"|", " ", "T", "y", "p", "e">>
STATUS_CHANGE == <<"s", "t", "a", "t", "u", "s", " ", "c", "h", "a", "n", "g",
                   "e">>

\* a field whose value has U+000B before the digit and U+001F after it
SEPARATED == <<"|", " ", "i", "d", ":", VT, "2", US>>

\* fields whose values are float literals beyond the largest double and
\* below the smallest normal one
HUGE == <<"|", " ", "k", ":", "1", "e", "4", "0", "0">>
TINY == <<"|", " ", "k", ":", "3", "e", "-", "3", "2", "4">>

InfoLines ==
  {STREAM_5, META_DATA, END_LINE, RULE, DESCRIPTION, CHANNELS, FRAME_RATE,
   SEPARATED, HUGE, TINY, BAR, NO_COLON, STATUS_CHANGE, <<>>}

\* The lists of up to MaxInfoLines lines that VLC may print for info
InfoReplies == UNION {[1..n -> InfoLines] : n \in 0..MaxInfoLines}

\* The bytes of the lines, each ended by CRLF
RECURSIVE JoinLines(_)
JoinLines(lines) ==
  IF lines = <<>> THEN <<>>
  ELSE lines[1] \o CRLF \o JoinLines(Tail(lines))

\* In answer to the command line of info(): the lines and the prompt, or
\* the end of the stream
InfoCmdReplies ==
  {Reply(JoinLines(lines) \o PROMPT, "open") : lines \in InfoReplies}
    \cup {Reply(<<>>, "eof")}


(***************************************************************************)
(* The state machine.                                                      *)
(***************************************************************************)
NoResult ==
  [op |-> "none", exc |-> "", lines |-> <<>>, text |-> <<>>,
   challenge |-> <<>>, alive |-> FALSE, answer |-> <<>>, args |-> <<>>,
   raw |-> <<>>, output |-> <<>>, command |-> <<>>, data |-> <<>>,
   at |-> 0, returned |-> FALSE]

Res(op, exc) == [NoResult EXCEPT !.op = op, !.exc = exc]

INFO == <<"i", "n", "f", "o">>

\* info() is at line 325: its run_command('info') has not ended yet
InfoPending(call) == call.op = "info" /\ call.exc = "" /\ ~call.returned

\* info(), lines 326-349, after run_command returned r.lines: o is the
\* outcome of the loop over them
InfoDecoded(r, o) ==
  [r EXCEPT !.op = "info", !.command = INFO, !.returned = TRUE,
            !.exc = o.exc, !.data = o.data, !.at = o.at]

\* info(), line 325 on: an exception of run_command leaves info() as it
\* is, the lines it returns go through the loop
InfoResult(r) ==
  IF r.exc # "" THEN [r EXCEPT !.op = "info", !.command = INFO]
  ELSE InfoDecoded(r, Info(r.lines))

\* The outcome r of run_command, as the method that called it ends with it
CallResult(call, r) == IF InfoPending(call) THEN InfoResult(r) ELSE r

\* What the remote end may send in answer to the command line of the call
Answers(call) == IF InfoPending(call) THEN InfoCmdReplies ELSE CmdReplies

\* __init__, lines 50-54: the fields are set, nothing is connected
Init ==
  /\ pc = "init"
  /\ retries \in 0..MaxRetries
  /\ tn = TelnetNew
  /\ authed = FALSE
  /\ closedSocks = {}
  /\ nextSock = 1
  /\ budget = 0
  /\ trace = <<>>
  /\ result = NoResult

\* __init__, lines 56-57: connect() when the connect flag is set
ConstructConnect(connect, ok) ==
  IF connect THEN Connect(tn, ok, nextSock)
  ELSE [tn |-> tn, ev |-> <<>>, exc |-> ""]

\* __init__, lines 59-60: login() is called
ConstructCalls(connect, login, ok) ==
  ConstructConnect(connect, ok).exc = "" /\ InitCallsLogin(connect, login)

\* What the remote end can send to the login() of the constructor
ConstructPrompts(connect, login, ok) ==
  IF ConstructCalls(connect, login, ok)
  THEN Sent(ConstructConnect(connect, ok).tn, PromptReplies)
  ELSE {Silence}
ConstructWrites(connect, login, ok, pr) ==
  IF ConstructCalls(connect, login, ok)
  THEN LoginWrites(ConstructConnect(connect, ok).tn, pr)
  ELSE {"ok"}
ConstructHeard(connect, login, ok, pr, w) ==
  IF ConstructCalls(connect, login, ok)
  THEN LoginHeard(ConstructConnect(connect, ok).tn, pr, w)
  ELSE {Silence}

\* __init__, lines 56-60.  An exception leaves no object behind.
Construct ==
  /\ pc = "init"
  /\ \E connect \in BOOLEAN, login \in BOOLEAN, ok \in BOOLEAN :
     \E pr \in ConstructPrompts(connect, login, ok) :
     \E w \in ConstructWrites(connect, login, ok, pr) :
     \E lr \in ConstructHeard(connect, login, ok, pr, w) :
     \E c \in {ConstructConnect(connect, ok)} :
     \E calls \in {ConstructCalls(connect, login, ok)} :
     \E l \in {IF calls THEN Login(c.tn, pr, w, lr)
               ELSE LoginOut(c.tn, <<>>, "", <<>>, <<>>, <<>>)} :
     \E exc \in {IF c.exc # "" THEN c.exc ELSE l.exc} :
          /\ exc # "blocks"
          /\ Bounded(l.tn)
          /\ tn' = l.tn
          /\ nextSock' = IF connect /\ ok THEN nextSock + 1 ELSE nextSock
          /\ authed' = (calls /\ l.exc = "")
          /\ pc' = IF exc = "" THEN "idle" ELSE "failed"
          /\ trace' = c.ev \o l.ev
          /\ result' = [Res("init", exc) EXCEPT !.challenge = l.challenge,
                                                !.lines = l.read,
                                                !.raw = l.drained,
                                                !.args = <<connect, login>>]
  /\ UNCHANGED <<retries, closedSocks, budget>>

\* connect(), called by the user
ConnectOp ==
  /\ pc = "idle"
  /\ nextSock <= MaxSocks
  /\ \E ok \in BOOLEAN :
       \E c \in {Connect(tn, ok, nextSock)} :
          /\ tn' = c.tn
          /\ nextSock' = IF ok THEN nextSock + 1 ELSE nextSock
          /\ authed' = IF ok THEN FALSE ELSE authed
          /\ trace' = c.ev
          /\ result' = Res("connect", c.exc)
  /\ UNCHANGED <<pc, retries, closedSocks, budget>>

\* disconnect(), called by the user
DisconnectOp ==
  /\ pc = "idle"
  /\ \E d \in {Disconnect(tn)} :
    /\ tn' = d.tn
        /\ closedSocks' = closedSocks \cup d.closed
        /\ authed' = (authed /\ d.tn.sock = tn.sock /\ d.tn.sock # NoSock)
        /\ trace' = d.ev
        /\ result' = Res("disconnect", d.exc)
  /\ UNCHANGED <<pc, retries, nextSock, budget>>

\* login(), called by the user
LoginOp ==
  /\ pc = "idle"
  /\ \E pr \in Sent(tn, PromptReplies) :
     \E w \in LoginWrites(tn, pr) :
     \E lr \in LoginHeard(tn, pr, w) :
       \E l \in {Login(tn, pr, w, lr)} :
          /\ l.exc # "blocks"
          /\ Bounded(l.tn)
          /\ tn' = l.tn
          /\ authed' = IF l.exc = "" THEN TRUE ELSE authed
          /\ trace' = l.ev
          /\ result' = [Res("login", l.exc) EXCEPT !.challenge = l.challenge,
                                                   !.lines = l.read,
                                                   !.raw = l.drained]
  /\ UNCHANGED <<pc, retries, closedSocks, nextSock, budget>>

\* is_connected(), called by the user
IsConnectedOp ==
  /\ pc = "idle"
  /\ \E w \in WriteOutcomes(tn) :
     \E pr \in Heard(tn, w, ProbeReplies) :
       \E p \in {IsConnected(tn, w, pr)} :
          /\ p.exc # "blocks"
          /\ Bounded(p.tn)
          /\ tn' = p.tn
          /\ trace' = p.ev
          /\ result' = [Res("is_connected", p.exc) EXCEPT !.alive = p.alive,
                                                           !.answer = p.answer]
  /\ UNCHANGED <<pc, retries, authed, closedSocks, nextSock, budget>>

\* run_command(command): the call of do_run_command(command, self.retries)
RunCommand ==
  /\ pc = "idle"
  /\ nextSock + retries <= MaxSocks + 1
  /\ pc' = "run"
  /\ budget' = RunCommandBudget(retries)
  /\ trace' = <<>>
  /\ UNCHANGED <<retries, tn, authed, closedSocks, nextSock, result>>

\* the arguments set_volume is called with
LOUD == <<"l", "o", "u", "d">>
VolumeArgs ==
  {PyStr(<<VT, "7", " ">>), PyStr(<<FS, "7">>), PyNum(30), PyStr(LOUD),
   PyStr(<<>>), PyStr(<<"1", ".", "5">>), None}

\* set_volume(setto), lines 372-375: the command is built, then run_command
\* is entered with it; an exception of int() ends the call before that
SetVolumeOp ==
  /\ pc = "idle"
  /\ \E setto \in VolumeArgs :
       \E c \in {SetVolumeCommand(setto)} :
          IF c.exc # ""
          THEN /\ result' = [Res("set_volume", c.exc) EXCEPT !.args = <<setto>>]
               /\ pc' = "idle"
               /\ budget' = budget
          ELSE /\ nextSock + retries <= MaxSocks + 1
               /\ result' = [Res("set_volume", "")
                               EXCEPT !.args = <<setto>>,
                                      !.command = c.command]
               /\ pc' = "run"
               /\ budget' = RunCommandBudget(retries)
  /\ trace' = <<>>
  /\ UNCHANGED <<retries, tn, authed, closedSocks, nextSock>>

\* info(), line 325: run_command is entered with 'info'
InfoOp ==
  /\ pc = "idle"
  /\ nextSock + retries <= MaxSocks + 1
  /\ result' = [Res("info", "") EXCEPT !.command = INFO]
  /\ pc' = "run"
  /\ budget' = RunCommandBudget(retries)
  /\ trace' = <<>>
  /\ UNCHANGED <<retries, tn, authed, closedSocks, nextSock>>

\* One call of do_run_command(command, budget): the probe, then the send,
\* the reconnect followed by the recursive call, or the raise.
DoRunCommand ==
  /\ pc = "run"
  /\ \E w0 \in WriteOutcomes(tn) :
     \E pr \in Heard(tn, w0, ProbeReplies) :
       \E p \in {IsConnected(tn, w0, pr)} :
       \E next \in {RetryDecision(p.alive, budget)} :
          /\ p.exc # "blocks"
          /\ \/ /\ p.exc # ""
                /\ Bounded(p.tn)
                /\ tn' = p.tn
                /\ trace' = trace \o p.ev
                /\ result' = CallResult(result, Res("run_command", p.exc))
                /\ pc' = "idle"
                /\ budget' = 0
                /\ UNCHANGED <<authed, nextSock>>
             \/ /\ p.exc = "" /\ next = "send"
                /\ \E w1 \in WriteOutcomes(p.tn) :
                   \E cr \in Heard(p.tn, w1, Answers(result)) :
                     \E s \in {DoSendString(p.tn, w1, cr)} :
                        /\ s.exc # "blocks"
                        /\ Bounded(s.tn)
                        /\ tn' = s.tn
                        /\ trace' = trace \o p.ev \o s.ev
                        /\ result' =
                             CallResult(result,
                                        [Res("run_command", s.exc)
                                           EXCEPT !.lines = s.lines,
                                                  !.text = s.text,
                                                  !.raw = s.raw,
                                                  !.output = s.output])
                /\ pc' = "idle"
                /\ budget' = 0
                /\ UNCHANGED <<authed, nextSock>>
             \/ /\ p.exc = "" /\ next = "reconnect"
                /\ \E ok \in BOOLEAN :
                     \E c \in {Reconnect(p.tn, ok, nextSock)} :
                        /\ tn' = c.tn
                        /\ trace' = trace \o p.ev \o c.ev
                        /\ nextSock' = IF ok THEN nextSock + 1 ELSE nextSock
                        /\ authed' = IF ok THEN c.authed ELSE authed
                        /\ pc' = IF c.exc = "" THEN "run" ELSE "idle"
                        /\ budget' = IF c.exc = "" THEN NextBudget(budget)
                                     ELSE 0
                        /\ result' =
                             IF c.exc = "" THEN result
                             ELSE CallResult(result,
                                             Res("run_command", c.exc))
             \/ /\ p.exc = "" /\ next = "raise"
                /\ Bounded(p.tn)
                /\ tn' = p.tn
                /\ trace' = trace \o p.ev
                /\ result' = CallResult(result,
                                        Res("run_command", "ConnectionError"))
                /\ pc' = "idle"
                /\ budget' = 0
                /\ UNCHANGED <<authed, nextSock>>
  /\ UNCHANGED <<retries, closedSocks>>

Next ==
  \/ Construct
  \/ ConnectOp
  \/ DisconnectOp
  \/ LoginOp
  \/ IsConnectedOp
  \/ RunCommand
  \/ SetVolumeOp
  \/ DoRunCommand

Spec == Init /\ [][Next]_vars

\* The invocations of run_command alone, on the sessions that the
\* constructor, disconnect() and earlier invocations leave behind.  A call
\* of do_run_command that has been made runs on: run_command is synchronous,
\* and each transport call is taken to return or raise.
FairNext ==
  \/ Construct
  \/ DisconnectOp
  \/ RunCommand
  \/ DoRunCommand

FairSpec == Init /\ [][FairNext]_vars /\ WF_vars(DoRunCommand)

\* The invocations of info() on the sessions that the constructor and
\* earlier invocations leave behind
InfoNext ==
  \/ Construct
  \/ InfoOp
  \/ DoRunCommand

SpecInfo == Init /\ [][InfoNext]_vars


(***************************************************************************)
(* Vocabulary of the properties.                                           *)
(***************************************************************************)
Count(s, e) == Cardinality({i \in DOMAIN s : s[i] = e})
Has(s, e) == \E i \in DOMAIN s : s[i] = e

\* Disconnected, Connected, Authenticated
SessionState ==
  IF tn.sock = NoSock THEN "Disconnected"
  ELSE IF authed THEN "Authenticated" ELSE "Connected"

\* trace is the trace of a run_command invocation, pending or completed
RunActive == pc = "run" \/ (pc = "idle" /\ result.op = "run_command")
RunDone == pc = "idle" /\ result.op = "run_command"

\* Every liveness probe of the invocation has returned False
AllProbesDead == Count(trace, "dead") = Count(trace, "probe_write")

CmdErrors == {"CommandError", "LuaError"}

(***************************************************************************)
(* C1.  With every liveness probe of a run_command invocation returning    *)
(* False, the invocation makes at most retries + 1 probes and at most      *)
(* retries connect() calls, never writes the command, and ends by raising  *)
(* ConnectionError.                                                        *)
(***************************************************************************)
C1_DeadTransportBoundedAttempts ==
  (RunActive /\ AllProbesDead) =>
    /\ Count(trace, "probe_write") <= retries + 1
    /\ Count(trace, "connect") <= retries
    /\ Count(trace, "cmd_write") = 0
    /\ (pc = "idle" => result.exc = "ConnectionError")

\* An invocation that used its whole budget on a dead transport
C1_Witness ==
  /\ RunDone /\ AllProbesDead
  /\ retries >= 2
  /\ Count(trace, "probe_write") = retries + 1
  /\ Count(trace, "connect") = retries
  /\ result.exc = "ConnectionError"

(***************************************************************************)
(* C2.  No step changes self.retries, and every run_command invocation     *)
(* starts do_run_command with the whole of self.retries as its budget.     *)
(***************************************************************************)
C2_BudgetNotPersisted ==
  [][/\ retries' = retries
     /\ (pc = "idle" /\ pc' = "run") => budget' = retries']_vars

\* A new invocation starts with the full budget right after an invocation
\* that ran out of budget
C2_Witness ==
  /\ pc = "run" /\ trace = <<>>
  /\ retries >= 1 /\ budget = retries
  /\ result.op = "run_command" /\ result.exc = "ConnectionError"
  /\ nextSock > retries

(***************************************************************************)
(* C3.  run_command never calls login(): after a reconnect the session is  *)
(* Connected and not Authenticated when the next probe or send is made.    *)
(***************************************************************************)
C3_ReconnectWithoutLogin ==
  /\ RunActive => ~Has(trace, "login")
  /\ (pc = "run" /\ Has(trace, "connect")) => SessionState = "Connected"
  /\ (RunDone /\ Has(trace, "connect") /\ trace[Len(trace)] # "connect")
       => SessionState = "Connected"

\* A command line written after a reconnect, on a session not authenticated
C3_Witness ==
  /\ RunDone
  /\ Has(trace, "connect") /\ Has(trace, "cmd_write")
  /\ SessionState = "Connected"

(***************************************************************************)
(* C4.  run_command writes a command line to the transport only while the  *)
(* session is Authenticated.                                               *)
(***************************************************************************)
C4_CommandOnlyWhenAuthenticated ==
  (RunDone /\ Has(trace, "cmd_write")) => SessionState = "Authenticated"

(***************************************************************************)
(* C5.  In is_connected() a socket error of the transport, on the write of *)
(* the probe or on the read, gives False; True is returned only after a    *)
(* read that gave at least one byte.                                       *)
(***************************************************************************)
C5_ProbeFalseOnSocketError ==
  /\ \A i \in DOMAIN trace :
       trace[i] = "OSError" => (i < Len(trace) /\ trace[i + 1] = "dead")
  /\ \A i \in DOMAIN trace :
       trace[i] = "alive" => (i > 1 /\ trace[i - 1] = "probe_read")
  /\ (pc = "idle" /\ result.op = "is_connected") =>
       /\ Has(trace, "OSError") => (result.exc = "" /\ ~result.alive)
       /\ result.alive => result.answer # <<>>

\* One invocation with a socket error on a probe's write and on a probe's read
C5_Witness ==
  /\ \E i \in DOMAIN trace :
       i > 1 /\ trace[i] = "OSError" /\ trace[i - 1] = "probe_write"
  /\ \E i \in DOMAIN trace :
       i > 1 /\ trace[i] = "OSError" /\ trace[i - 1] = "probe_read"

(***************************************************************************)
(* C6.  A login() whose challenge response holds "wrong password" in any   *)
(* casing raises AuthError, also when the response holds "welcome", and    *)
(* leaves the authentication of the session as it was.                     *)
(***************************************************************************)
C6_WrongPasswordIsAuthError ==
  [][(/\ Has(trace', "login")
      /\ result'.challenge # <<>>
      /\ Contains(Lower(result'.challenge[1]), WRONG_PASSWORD))
     => (result'.exc = "AuthError" /\ authed' = authed)]_vars

\* A rejected login whose response holds the welcome too, in mixed case
C6_Witness ==
  /\ Has(trace, "login")
  /\ result.challenge # <<>>
  /\ Contains(result.challenge[1], WRONG_UPPER)
  /\ Contains(Lower(result.challenge[1]), WELCOME)
  /\ result.exc = "AuthError"
  /\ ~authed

(***************************************************************************)
(* C7.  A login() whose challenge response holds neither "wrong password"  *)
(* nor "welcome" raises CommandError, and the session becomes              *)
(* Authenticated only by a login() whose response holds "welcome" and not  *)
(* "wrong password".                                                       *)
(***************************************************************************)
C7_UnexpectedResponseIsCommandError ==
  [][/\ (/\ Has(trace', "login")
         /\ result'.challenge # <<>>
         /\ ~Contains(Lower(result'.challenge[1]), WRONG_PASSWORD)
         /\ ~Contains(Lower(result'.challenge[1]), WELCOME))
        => result'.exc = "CommandError"
     /\ (authed' /\ ~authed)
        => /\ Has(trace', "login")
           /\ result'.challenge # <<>>
           /\ Contains(Lower(result'.challenge[1]), WELCOME)
           /\ ~Contains(Lower(result'.challenge[1]), WRONG_PASSWORD)]_vars

\* A login refused for a response that is neither a welcome nor a rejection
C7_Witness ==
  /\ Has(trace, "login")
  /\ result.challenge = << <<"h", "i">> >>
  /\ result.exc = "CommandError"
  /\ ~authed

(***************************************************************************)
(* C8.  disconnect() can be called in every state of the session and does  *)
(* not raise; it closes the socket, installs a fresh Telnet object and     *)
(* leaves the session Disconnected; a second disconnect() changes nothing; *)
(* a later connect() can open a new socket.                                *)
(***************************************************************************)
C8_DisconnectAlwaysSafe ==
  /\ [](pc = "idle" => ENABLED DisconnectOp)
  /\ []((pc = "idle" /\ trace = <<"close">> /\ nextSock <= MaxSocks)
         => ENABLED (ConnectOp /\ tn'.sock \notin closedSocks \cup {NoSock}))
  /\ [][trace' = <<"close">> =>
          /\ result'.exc = "" /\ pc' = "idle"
          /\ tn' = TelnetNew
          /\ ~authed'
          /\ tn.sock # NoSock => tn.sock \in closedSocks'
          /\ trace = <<"close">> => UNCHANGED vars]_vars

\* After the disconnect of a session that had a socket
C8_Witness ==
  /\ pc = "idle" /\ trace = <<"close">>
  /\ tn = TelnetNew /\ closedSocks # {}
  /\ SessionState = "Disconnected"

(***************************************************************************)
(* C9.  do_send_string classifies the output by its first line alone:      *)
(* the unknown-command pattern raises CommandError, a first line that      *)
(* starts with "Error in" raises LuaError with the matched text, any       *)
(* other output is returned whole, and an empty output is returned empty.  *)
(* The output is the list of lines of the response, which exists once the  *)
(* read has returned bytes that decode as text.                            *)
(***************************************************************************)
\* do_send_string() has read a response and split it into lines
Responded ==
  /\ RunDone /\ Has(trace, "cmd_read")
  /\ result.exc \notin {"OSError", "EOFError", "UnicodeDecodeError"}

\* line is "Unknown command " + grave + anything + "'. Type " + grave +
\* "help' for help." + anything, the first anything without a line feed
IsUnknownCommandLine(line) ==
  \E i \in (Len(UNKNOWN_HEAD) + 1)..(Len(line) - Len(UNKNOWN_TAIL) + 1) :
    /\ SubSeq(line, 1, Len(UNKNOWN_HEAD)) = UNKNOWN_HEAD
    /\ SubSeq(line, i, i + Len(UNKNOWN_TAIL) - 1) = UNKNOWN_TAIL
    /\ \A j \in (Len(UNKNOWN_HEAD) + 1)..(i - 1) : line[j] # "\n"

C9_FirstLineClassification ==
  Responded
    => LET out == result.output
       IN IF out = <<>> THEN result.exc = "" /\ result.lines = <<>>
          ELSE IF IsUnknownCommandLine(out[1])
          THEN result.exc = "CommandError"
          ELSE IF StartsWith(out[1], ERROR_IN)
          THEN result.exc = "LuaError"
               /\ StartsWith(out[1], result.text)
               /\ ~Has(result.text, "\n")
               /\ (Len(result.text) = Len(out[1])
                   \/ out[1][Len(result.text) + 1] = "\n")
          ELSE result.exc = "" /\ result.lines = out

\* Error text on the second line of an output that is returned whole
C9_Witness ==
  /\ RunDone /\ result.exc = ""
  /\ Len(result.lines) = 2
  /\ result.lines = result.output
  /\ StartsWith(result.lines[2], ERROR_IN)

(***************************************************************************)
(* C10.  The do_run_command call that raises CommandError or LuaError      *)
(* leaves the socket, the authentication and self.retries as they were,    *)
(* raises after the read up to the prompt, and the next run_command, when  *)
(* its probe finds the transport alive, writes its command on the same     *)
(* socket without a connect().                                             *)
(***************************************************************************)
C10_CommandErrorKeepsSession ==
  [][/\ (pc = "run" /\ pc' = "idle" /\ result'.exc \in CmdErrors)
        => /\ tn'.sock = tn.sock /\ tn'.sock # NoSock
           /\ authed' = authed
           /\ retries' = retries
           /\ closedSocks' = closedSocks /\ nextSock' = nextSock
           /\ Len(trace') >= 2
           /\ trace'[Len(trace') - 1] = "cmd_write"
           /\ trace'[Len(trace')] = "cmd_read"
           /\ \/ Find(result'.raw, PROMPT) = Len(result'.raw) - 1
              \/ tn'.eof /\ ~Contains(result'.raw, PROMPT)
                         /\ tn'.cookedq = <<>>
     /\ (/\ pc = "run" /\ trace = <<>>
         /\ result.op = "run_command" /\ result.exc \in CmdErrors
         /\ Has(trace', "alive"))
        => /\ tn'.sock = tn.sock
           /\ pc' = "idle"
           /\ ~Has(trace', "connect")
           /\ Has(trace', "cmd_write")]_vars

\* The invocation that follows a LuaError has been started
C10_Witness ==
  /\ pc = "run" /\ trace = <<>>
  /\ result.op = "run_command" /\ result.exc = "LuaError"
  /\ result.text # <<>>
  /\ SessionState = "Authenticated"

(***************************************************************************)
(* Claims about the decoder of info(), under SpecInfo.                     *)
(***************************************************************************)
\* the loop of info() got to line i of the reply
\* info() has ended after run_command returned result.lines to it
InfoRan == pc = "idle" /\ result.op = "info" /\ result.returned
\* the loop of info() got to line i
InfoReached(i) == result.at = 0 \/ result.at >= i
\* a line that starts with "|" and has content after its first two characters
IsFieldLine(l) == Len(l) > 2 /\ l[1] = "|"
\* a line that opens a section: it starts with "+" and is not the end marker
IsSectionLine(l) ==
  l # <<>> /\ l[1] = "+" /\ ~Contains(l, END_OF_STREAM_INFO)
\* a line that starts with neither "+" nor "|"; the empty line is one
IsOtherLine(l) == l = <<>> \/ l[1] \notin {"+", "|"}

(***************************************************************************)
(* C11.  info(): a field line (it starts with "|" and has content after    *)
(* the two-character prefix) that the decoder gets to before it has        *)
(* processed any section-opening line makes info() raise ParseError.       *)
(* The code raises KeyError (data[None]) or, without a colon, ValueError.  *)
(***************************************************************************)
C11_FieldBeforeSectionIsParseError ==
  InfoRan =>
    \A i \in DOMAIN result.lines :
      ( /\ IsFieldLine(result.lines[i])
        /\ \A j \in 1..(i - 1) : ~IsSectionLine(result.lines[j])
        /\ InfoReached(i) )
      => result.exc = "ParseError"

(***************************************************************************)
(* C12.  info(): every line of the reply that starts with neither "+" nor  *)
(* "|", the empty line included, makes info() raise ParseError at that     *)
(* line, wherever in the reply the decoder gets to it.  The code raises    *)
(* IndexError on an empty line (l[0]).                                     *)
(***************************************************************************)
C12_OtherLineIsParseError ==
  InfoRan =>
    \A i \in DOMAIN result.lines :
      (IsOtherLine(result.lines[i]) /\ InfoReached(i))
      => (result.exc = "ParseError" /\ result.at = i)

(***************************************************************************)
(* C13.  A set_volume() whose argument is not a number fails before any    *)
(* byte is written: the call raises from int(), it makes no probe, no      *)
(* connect() and no command write, and it leaves the session as it was;    *)
(* only a numeric argument gets as far as run_command.                     *)
(***************************************************************************)
IsNumeric(setto) ==
  \/ setto.t = "int"
  \/ /\ setto.t = "str"
     /\ LET b == Unsigned(Strip(setto.s, NumberSpace))
        IN b # <<>> /\ \A i \in DOMAIN b : IsDigit(b[i])

C13_SetVolumeFailsBeforeAnyWrite ==
  [][(result'.op = "set_volume" /\ result' # result)
       => IF IsNumeric(result'.args[1])
          THEN /\ pc' = "run" /\ trace' = <<>>
               /\ result'.command = VOLUME \o IntStr(IntOf(result'.args[1]).n)
               /\ UNCHANGED <<tn, authed, closedSocks, nextSock, retries>>
          ELSE /\ result'.exc \in {"ValueError", "TypeError"}
               /\ trace' = <<>>
               /\ UNCHANGED <<pc, tn, authed, closedSocks, nextSock, retries,
                              budget>>]_vars

\* set_volume('loud') has raised on an authenticated session
C13_Witness ==
  /\ pc = "idle" /\ result.op = "set_volume"
  /\ result.args = <<PyStr(LOUD)>>
  /\ result.exc = "ValueError"
  /\ trace = <<>>
  /\ SessionState = "Authenticated"

(***************************************************************************)
(* C14.  The constructor calls connect() exactly when its connect flag is  *)
(* set.  As stated, it also calls login() exactly when its login flag is   *)
(* set, for all four combinations of the flags (a connect() that raised    *)
(* set aside): C14_FlagsOrthogonal.  The code calls login() only when both flags are   *)
(* set (and connect() has returned): C14_LoginNeedsConnectFlag.            *)
(***************************************************************************)
Constructed == pc \in {"idle", "failed"} /\ result.op = "init"

C14_FlagsOrthogonal ==
  (Constructed /\ result.exc # "ConnectionError") =>
    /\ Has(trace, "connect") <=> result.args[1]
    /\ Has(trace, "login") <=> result.args[2]

C14_LoginNeedsConnectFlag ==
  Constructed =>
    /\ Has(trace, "connect") <=> result.args[1]
    /\ Count(trace, "connect") <= 1 /\ Count(trace, "login") <= 1
    /\ Has(trace, "login") <=>
         (result.args[1] /\ result.args[2] /\ result.exc # "ConnectionError")
    /\ Has(trace, "login") => trace[1] = "connect" /\ trace[2] = "login"

\* VLCTelnet(connect=False, login=True) has returned without a login()
C14_Witness ==
  /\ pc = "idle" /\ result.op = "init"
  /\ result.args = <<FALSE, TRUE>>
  /\ result.exc = ""
  /\ trace = <<>>
  /\ SessionState = "Disconnected"

(***************************************************************************)
(* C15.  run_command never pipelines.  As stated, every write of an        *)
(* invocation (probe newline or command line) that did not itself raise   *)
(* is followed by a completed read-until-prompt before the next write:     *)
(* C15_EveryWriteThenRead.  The                                            *)
(* code does so on one socket; a probe whose write or read raised a socket *)
(* error is followed by connect() and the next write goes to the new       *)
(* socket: C15_NoPipelining.  On a live session the order is probe write,  *)
(* probe read, command write, command read.                                *)
(***************************************************************************)
Writes == {"probe_write", "cmd_write"}
ReadOf(w) == IF w = "probe_write" THEN "probe_read" ELSE "cmd_read"
\* the write at i and the next write, at j
NextWrite(i, j) ==
  /\ i < j /\ trace[i] \in Writes /\ trace[j] \in Writes
  /\ \A k \in (i + 1)..(j - 1) : trace[k] \notin Writes
\* the write at i was followed by its read, and the read returned
ReadCompleted(i) ==
  /\ i + 2 <= Len(trace)
  /\ trace[i + 1] = ReadOf(trace[i])
  /\ trace[i + 2] # "OSError"

C15_EveryWriteThenRead ==
  RunActive =>
    \A i, j \in DOMAIN trace :
      (NextWrite(i, j) /\ trace[i + 1] # "OSError") => ReadCompleted(i)

C15_NoPipelining ==
  RunActive =>
    /\ \A i, j \in DOMAIN trace :
         NextWrite(i, j) =>
           \/ ReadCompleted(i)
           \/ /\ trace[i] = "probe_write" /\ trace[j] = "probe_write"
              /\ trace[j - 1] = "connect" /\ trace[j - 2] = "dead"
              /\ Has(SubSeq(trace, i, j), "OSError")
    /\ \A i \in DOMAIN trace :
         /\ trace[i] = "alive" =>
              /\ i >= 3 /\ trace[i - 2] = "probe_write"
              /\ trace[i - 1] = "probe_read"
              /\ i < Len(trace) => trace[i + 1] = "cmd_write"
         /\ trace[i] = "cmd_write" =>
              /\ i >= 4 /\ trace[i - 1] = "alive"
              /\ i < Len(trace) => (i + 1 = Len(trace)
                                    /\ trace[i + 1] = "cmd_read")
    /\ (RunDone /\ result.exc = "" /\ ~Has(trace, "connect")) =>
         trace = <<"probe_write", "probe_read", "alive", "cmd_write",
                   "cmd_read">>

\* a probe read that raised a socket error, a reconnect, and the command
\* sent on the new socket
C15_Witness ==
  /\ RunDone /\ result.exc = ""
  /\ trace = <<"probe_write", "probe_read", "OSError", "dead", "connect",
               "probe_write", "probe_read", "alive", "cmd_write", "cmd_read">>

(***************************************************************************)
(* C16.  When connect() fails on the reconnect path of run_command, the    *)
(* invocation ends at once with ConnectionError, whatever budget is left:  *)
(* no socket is opened, no further probe or connect() follows and the      *)
(* command is not written.                                                 *)
(***************************************************************************)
\* the step is a do_run_command call whose connect() raised
ReconnectFailed ==
  /\ pc = "run"
  /\ Len(trace') > Len(trace)
  /\ trace'[Len(trace')] = "connect"
  /\ nextSock' = nextSock

C16_ReconnectFailurePropagates ==
  [][ReconnectFailed =>
       /\ pc' = "idle"
       /\ result'.op = "run_command" /\ result'.exc = "ConnectionError"
       /\ tn'.sock = tn.sock
       /\ Count(trace', "connect") = Count(trace, "connect") + 1
       /\ Count(trace', "probe_write") = Count(trace, "probe_write") + 1
       /\ ~Has(trace', "cmd_write")
       /\ budget > 0]_vars

\* the first reconnect of an invocation with a budget of two has failed
C16_Witness ==
  /\ RunDone /\ result.exc = "ConnectionError"
  /\ retries = 2
  /\ trace = <<"probe_write", "probe_read", "OSError", "dead", "connect">>
  /\ SessionState # "Disconnected"

(***************************************************************************)
(* Claims about login(), called by the user or by the constructor.         *)
(***************************************************************************)
\* trace and result are those of a login() that has returned or raised
LoginDone ==
  /\ pc \in {"idle", "failed"}
  /\ result.op \in {"login", "init"}
  /\ Has(trace, "login")

EndsWith(s, m) ==
  Len(s) >= Len(m) /\ SubSeq(s, Len(s) - Len(m) + 1, Len(s)) = m

(***************************************************************************)
(* C17.  A login() that returns has read the stream through the first     *)
(* prompt: when the welcome line holds no "> " it makes exactly one more   *)
(* read, a read-until-prompt that is its last transport call, and when the *)
(* welcome line holds "> " it makes no read after that line.  (The read    *)
(* returns short of a prompt only when the stream has ended.)              *)
(***************************************************************************)
C17_LoginDrainsToPrompt ==
  (LoginDone /\ result.exc = "") =>
    /\ result.challenge # <<>>
    /\ IF Contains(result.challenge[1], PROMPT)
       THEN /\ ~Has(trace, "read_drain")
            /\ trace[Len(trace)] = "read_line"
       ELSE /\ Count(trace, "read_drain") = 1
            /\ trace[Len(trace)] = "read_drain"
            /\ trace[Len(trace) - 1] = "read_line"
            /\ EndsWith(result.raw, PROMPT) \/ tn.eof

\* login() has returned after a welcome line without prompt and the read
\* that followed it
C17_Witness ==
  /\ LoginDone /\ result.exc = ""
  /\ ~Contains(result.challenge[1], PROMPT)
  /\ Count(trace, "read_drain") = 1
  /\ result.raw = PROMPT
  /\ SessionState = "Authenticated"

(***************************************************************************)
(* C18.  After it has sent the password login() reads one line, and a      *)
(* second one only when the first is empty: the challenge response is the  *)
(* first line when that is not empty and the second line otherwise.  When  *)
(* both are empty the challenge response is empty and login() raises       *)
(* CommandError without a third read.                                      *)
(***************************************************************************)
C18_LoginReadsAtMostTwoLines ==
  LoginDone =>
    /\ Count(trace, "read_line") <= 2
    /\ result.challenge # <<>> =>
         /\ Len(result.lines) = Count(trace, "read_line")
         /\ Len(result.lines) \in {1, 2}
         /\ IF result.lines[1] # <<>>
            THEN /\ Len(result.lines) = 1
                 /\ result.challenge[1] = result.lines[1]
            ELSE /\ Len(result.lines) = 2
                 /\ result.challenge[1] = result.lines[2]
         /\ result.challenge[1] = <<>> =>
              /\ result.exc = "CommandError"
              /\ ~Has(trace, "read_drain")
              /\ trace[Len(trace)] = "read_line"

\* two empty lines have been read and the welcome line behind them is
\* still queued
C18_Witness ==
  /\ LoginDone /\ result.exc = "CommandError"
  /\ result.lines = << <<>>, <<>> >>
  /\ result.challenge = << <<>> >>
  /\ Count(trace, "read_line") = 2
  /\ Contains(tn.cookedq, WELCOME_CAP)

(***************************************************************************)
(* C19.  With every transport call returning or raising, every             *)
(* run_command invocation ends, by return or by raise, and it makes at     *)
(* most retries + 1 calls of do_run_command (each makes one probe),        *)
(* whatever the outcomes of the probes: the budget left and the calls made *)
(* add up to retries.                                                      *)
(***************************************************************************)
C19_RunCommandTerminates ==
  /\ [](RunActive => Count(trace, "probe_write") <= retries + 1)
  /\ [](pc = "run" =>
          /\ budget >= 0
          /\ budget + Count(trace, "probe_write") = retries)
  /\ (pc = "run") ~> (pc = "idle")

\* an invocation has returned the response lines from its last possible call
C19_Witness ==
  /\ RunDone /\ result.exc = ""
  /\ retries = MaxRetries
  /\ Count(trace, "probe_write") = retries + 1
  /\ Count(trace, "connect") = retries
  /\ Has(trace, "cmd_read")

(***************************************************************************)
(* C20.  A run_command invocation that starts on a Disconnected session    *)
(* (never connected, or after disconnect()) with a positive budget finds   *)
(* the probe false and calls connect() before any command line is          *)
(* written.  The code leaves is_connected() with the AttributeError of the *)
(* write on a Telnet object without socket, and makes no connect().        *)
(***************************************************************************)
C20_DisconnectedRunReconnects ==
  [][(/\ pc = "run" /\ trace = <<>>
      /\ SessionState = "Disconnected"
      /\ budget > 0)
       => /\ Has(trace', "dead")
          /\ Has(trace', "connect")
          /\ ~Has(trace', "cmd_write")]_vars


====
